---- MODULE Spec2Model ----
(***************************************************************************)
(* Model of scripts/bench/summarize.py: the benchmark summariser that      *)
(* folds Google-Benchmark JSON entries into a (case, rows) keyed table and *)
(* writes a CSV comparing the entropy and sqlite engines.                  *)
(*                                                                         *)
(* Strings that the program inspects (benchmark names, case names) are     *)
(* tuples of one-character strings, so partition, substring containment,   *)
(* int() and the ordering of sorted() are computed character by character. *)
(* Strings that are only compared for equality (time units, engine names,  *)
(* JSON marker fields) are TLA+ strings.                                   *)
(***************************************************************************)
EXTENDS Integers, Sequences, FiniteSets, TLC

VARIABLES pc, argc, benchmarks, i, summary, exc, output, todo, exit,
          parsed, converted, pname, presult

vars == <<pc, argc, benchmarks, i, summary, exc, output, todo, exit,
          parsed, converted, pname, presult>>

\* ------------------------------------------------------------------------
\* Bounds
\* ------------------------------------------------------------------------
MaxEntries == 3

\* ------------------------------------------------------------------------
\* Python floats.  A float is finite (the exact rational n/d, d > 0, in
\* lowest terms), inf or nan.  The finite values of the model stay far
\* below the double range, so finite arithmetic is exact here.
\* EmptyStr is the Python value "" that row.get(engine, "") yields.
\* ------------------------------------------------------------------------
RECURSIVE Gcd(_, _)
Gcd(a, b) == IF b = 0 THEN a ELSE Gcd(b, a % b)

Fin(n, d) == [k |-> "fin", n |-> n \div Gcd(n, d), d |-> d \div Gcd(n, d)]
Inf == [k |-> "inf", n |-> 0, d |-> 1]
NaN == [k |-> "nan", n |-> 0, d |-> 1]
EmptyStr == [k |-> "str", n |-> 0, d |-> 1]

\* isinstance(x, float)
IsFloat(x) == x.k # "str"

\* x != 0.0
NonZero(x) == ~(x.k = "fin" /\ x.n = 0)

\* value * factor, factor a positive finite constant
FloatMul(x, factor) ==
    IF x.k = "fin" THEN Fin(x.n * factor, x.d) ELSE x

\* a / b on floats; b = 0.0 raises ZeroDivisionError (ok = FALSE)
FloatDiv(a, b) ==
    IF b.k = "fin" /\ b.n = 0 THEN [ok |-> FALSE, val |-> NaN]
    ELSE IF a.k = "nan" \/ b.k = "nan" THEN [ok |-> TRUE, val |-> NaN]
    ELSE IF a.k = "inf" /\ b.k = "inf" THEN [ok |-> TRUE, val |-> NaN]
    ELSE IF a.k = "inf" THEN [ok |-> TRUE, val |-> Inf]
    ELSE IF b.k = "inf" THEN [ok |-> TRUE, val |-> Fin(0, 1)]
    ELSE [ok |-> TRUE, val |-> Fin(a.n * b.d, a.d * b.n)]

\* JSON numbers as json.load delivers them: an integer literal, or the
\* literal Infinity (also what an out-of-range literal such as 1e999 gives)
JNum(v) == [t |-> "num", v |-> v]
JInfinity == [t |-> "Infinity", v |-> 0]

\* float(x) of a JSON number
ToFloat(x) == IF x.t = "Infinity" THEN Inf ELSE Fin(x.v, 1)

\* ------------------------------------------------------------------------
\* to_ns
\* ------------------------------------------------------------------------
\* a conversion that takes an unknown unit for nanoseconds
to_ns_UnknownIsNs(value, unit) ==
    IF unit = "us" THEN [ok |-> TRUE, val |-> FloatMul(value, 1000)]
    ELSE IF unit = "ms" THEN [ok |-> TRUE, val |-> FloatMul(value, 1000000)]
    ELSE IF unit = "s" THEN [ok |-> TRUE, val |-> FloatMul(value, 1000000000)]
    ELSE [ok |-> TRUE, val |-> value]

to_ns(value, unit) ==
    IF unit = "ns" THEN [ok |-> TRUE, val |-> value]
    ELSE IF unit = "us" THEN [ok |-> TRUE, val |-> FloatMul(value, 1000)]
    ELSE IF unit = "ms" THEN [ok |-> TRUE, val |-> FloatMul(value, 1000000)]
    ELSE IF unit = "s" THEN [ok |-> TRUE, val |-> FloatMul(value, 1000000000)]
    ELSE [ok |-> FALSE, val |-> NaN]

\* ------------------------------------------------------------------------
\* Strings as character tuples
\* ------------------------------------------------------------------------
Digits == {"0", "1", "2", "3", "4", "5", "6", "7", "8", "9"}

DigitVal(c) == CASE c = "0" -> 0 [] c = "1" -> 1 [] c = "2" -> 2
                 [] c = "3" -> 3 [] c = "4" -> 4 [] c = "5" -> 5
                 [] c = "6" -> 6 [] c = "7" -> 7 [] c = "8" -> 8
                 [] c = "9" -> 9

\* needle in hay
Contains(hay, needle) ==
    \E s \in 0..(Len(hay) - Len(needle)) :
        \A k \in 1..Len(needle) : hay[s + k] = needle[k]

\* index of the first "/" of name, 0 when there is none
FirstSlash(name) ==
    IF \E p \in 1..Len(name) : name[p] = "/"
    THEN CHOOSE p \in 1..Len(name) :
             name[p] = "/" /\ \A q \in 1..(p - 1) : name[q] # "/"
    ELSE 0

\* name.partition("/"): the text before the first "/" and the text after it
Partition(name) ==
    LET slash == FirstSlash(name)
    IN  IF slash = 0
        THEN [base |-> name, arg |-> <<>>]
        ELSE [base |-> SubSeq(name, 1, slash - 1),
              arg |-> SubSeq(name, slash + 1, Len(name))]

RECURSIVE DigitsValue(_)
DigitsValue(s) ==
    IF s = <<>> THEN 0
    ELSE 10 * DigitsValue(SubSeq(s, 1, Len(s) - 1)) + DigitVal(s[Len(s)])

AllDigits(s) == s # <<>> /\ \A p \in 1..Len(s) : s[p] \in Digits

\* int(arg): an optional sign followed by decimal digits; anything else
\* raises ValueError (ok = FALSE)
IntParse(arg) ==
    IF arg # <<>> /\ arg[1] \in {"+", "-"}
    THEN IF AllDigits(Tail(arg))
         THEN [ok |-> TRUE,
               val |-> IF arg[1] = "-" THEN 0 - DigitsValue(Tail(arg))
                       ELSE DigitsValue(Tail(arg))]
         ELSE [ok |-> FALSE, val |-> 0]
    ELSE IF AllDigits(arg) THEN [ok |-> TRUE, val |-> DigitsValue(arg)]
    ELSE [ok |-> FALSE, val |-> 0]

\* ------------------------------------------------------------------------
\* parse_name
\* ------------------------------------------------------------------------
\* the engine rules in the other order
EngineOf_SqliteFirst(base) ==
    IF Contains(base, <<"S", "q", "l", "i", "t", "e">>) THEN "sqlite"
    ELSE IF Contains(base, <<"E", "n", "t", "r", "o", "p", "y">>) THEN "entropy"
    ELSE "other"

EngineOf(base) ==
    IF Contains(base, <<"E", "n", "t", "r", "o", "p", "y">>) THEN "entropy"
    ELSE IF Contains(base, <<"S", "q", "l", "i", "t", "e">>) THEN "sqlite"
    ELSE "other"

CaseOf(base) ==
    IF Contains(base, <<"I", "n", "s", "e", "r", "t", "B", "a", "t", "c", "h">>) THEN <<"i", "n", "s", "e", "r", "t", "_", "b", "a", "t", "c", "h">>
    ELSE IF Contains(base, <<"P", "o", "i", "n", "t", "S", "e", "l", "e", "c", "t">>) THEN <<"p", "o", "i", "n", "t", "_", "s", "e", "l", "e", "c", "t">>
    ELSE base

\* rows = int(arg) if arg else 0
RowsOf(arg) == IF arg # <<>> THEN IntParse(arg) ELSE [ok |-> TRUE, val |-> 0]

\* ok = FALSE stands for the ValueError int() raises; nothing is returned
parse_name(name) ==
    LET parts == Partition(name)
        rows == RowsOf(parts.arg)
    IN  IF rows.ok
        THEN [ok |-> TRUE, case |-> CaseOf(parts.base), rows |-> rows.val,
              engine |-> EngineOf(parts.base)]
        ELSE [ok |-> FALSE, case |-> <<>>, rows |-> 0, engine |-> "none"]

\* ------------------------------------------------------------------------
\* JSON entries: a record whose DOMAIN is the set of fields present
\* ------------------------------------------------------------------------
None == "<None>"

\* entry.get(key, default)
Get(entry, key, default) ==
    IF key \in DOMAIN entry THEN entry[key] ELSE default

\* truth value of a string-or-None
Truthy(x) == x # None /\ x # ""

\* a marker test that looks at aggregate_name only
IsAggregate_NameOnly(entry) ==
    Truthy(Get(entry, "aggregate_name", None))

\* entry.get("aggregate_name") or entry.get("run_type") == "aggregate"
IsAggregate(entry) ==
    Truthy(Get(entry, "aggregate_name", None))
        \/ Get(entry, "run_type", None) = "aggregate"

NameOf(entry) == Get(entry, "name", <<>>)

RealTimeOf(entry) == ToFloat(Get(entry, "real_time", JNum(0)))

UnitOf(entry) == Get(entry, "time_unit", "ns")

\* ------------------------------------------------------------------------
\* The summary table: a function from (case, rows) keys to rows, a row a
\* function from the engine names present to floats
\* ------------------------------------------------------------------------
EmptyDict == [x \in {} |-> x]

\* an upsert that keeps the value already stored for the engine
Upsert_KeepFirst(table, key, engine, ns_per_op) ==
    LET old == IF key \in DOMAIN table THEN table[key] ELSE [x \in {} |-> x]
        new == [e \in (DOMAIN old) \cup {engine} |->
                    IF e \in DOMAIN old THEN old[e] ELSE ns_per_op]
    IN  [k \in (DOMAIN table) \cup {key} |->
            IF k = key THEN new ELSE table[k]]

\* summary.setdefault(key, {})[engine] = ns_per_op
Upsert(table, key, engine, ns_per_op) ==
    LET old == IF key \in DOMAIN table THEN table[key] ELSE EmptyDict
        new == [e \in (DOMAIN old) \cup {engine} |->
                    IF e = engine THEN ns_per_op ELSE old[e]]
    IN  [k \in (DOMAIN table) \cup {key} |->
            IF k = key THEN new ELSE table[k]]

\* one pass of the loop body over entry, as a function of the table;
\* ok = FALSE when parse_name or to_ns raises
FoldEntry(table, entry) ==
    IF IsAggregate(entry) THEN [ok |-> TRUE, table |-> table]
    ELSE IF NameOf(entry) = <<>> THEN [ok |-> TRUE, table |-> table]
    ELSE LET p == parse_name(NameOf(entry))
             ns == to_ns(RealTimeOf(entry), UnitOf(entry))
         IN  IF ~p.ok THEN [ok |-> FALSE, table |-> table]
             ELSE IF p.engine = "other" THEN [ok |-> TRUE, table |-> table]
             ELSE IF ~ns.ok THEN [ok |-> FALSE, table |-> table]
             ELSE [ok |-> TRUE,
                   table |-> Upsert(table, <<p.case, p.rows>>, p.engine, ns.val)]

\* the whole aggregation loop over a list of entries
RECURSIVE aggregate(_)
aggregate(entries) ==
    IF entries = <<>> THEN [ok |-> TRUE, table |-> EmptyDict]
    ELSE LET before == aggregate(SubSeq(entries, 1, Len(entries) - 1))
         IN  IF before.ok THEN FoldEntry(before.table, entries[Len(entries)])
             ELSE before

\* ------------------------------------------------------------------------
\* sorted(summary.keys()): tuples compare by case (code point order of the
\* characters), then by rows (numerically)
\* ------------------------------------------------------------------------
Ord == ("A" :> 65) @@ ("B" :> 66) @@ ("C" :> 67) @@ ("D" :> 68) @@ ("E" :> 69) @@ ("F" :> 70) @@ ("G" :> 71) @@ ("H" :> 72) @@ ("I" :> 73) @@ ("J" :> 74) @@ ("K" :> 75) @@ ("L" :> 76) @@ ("M" :> 77) @@ ("N" :> 78) @@ ("O" :> 79) @@ ("P" :> 80) @@ ("Q" :> 81) @@ ("R" :> 82) @@ ("S" :> 83) @@ ("T" :> 84) @@ ("U" :> 85) @@ ("V" :> 86) @@ ("W" :> 87) @@ ("X" :> 88) @@ ("Y" :> 89) @@ ("Z" :> 90) @@ ("a" :> 97) @@ ("b" :> 98) @@ ("c" :> 99) @@ ("d" :> 100) @@ ("e" :> 101) @@ ("f" :> 102) @@ ("g" :> 103) @@ ("h" :> 104) @@ ("i" :> 105) @@ ("j" :> 106) @@ ("k" :> 107) @@ ("l" :> 108) @@ ("m" :> 109) @@ ("n" :> 110) @@ ("o" :> 111) @@ ("p" :> 112) @@ ("q" :> 113) @@ ("r" :> 114) @@ ("s" :> 115) @@ ("t" :> 116) @@ ("u" :> 117) @@ ("v" :> 118) @@ ("w" :> 119) @@ ("x" :> 120) @@ ("y" :> 121) @@ ("z" :> 122) @@ ("0" :> 48) @@ ("1" :> 49) @@ ("2" :> 50) @@ ("3" :> 51) @@ ("4" :> 52) @@ ("5" :> 53) @@ ("6" :> 54) @@ ("7" :> 55) @@ ("8" :> 56) @@ ("9" :> 57) @@ ("_" :> 95) @@ ("/" :> 47) @@ ("+" :> 43) @@ ("-" :> 45)

StrLess(a, b) ==
    \E p \in 1..(Len(b)) :
        /\ p <= Len(a) + 1
        /\ \A q \in 1..(p - 1) : a[q] = b[q]
        /\ (p = Len(a) + 1 \/ Ord[a[p]] < Ord[b[p]])

KeyLess(a, b) == StrLess(a[1], b[1]) \/ (a[1] = b[1] /\ a[2] < b[2])

\* a sort that compares rows before case
RECURSIVE SortKeys_RowsFirst(_)
SortKeys_RowsFirst(S) ==
    IF S = {} THEN <<>>
    ELSE LET least == CHOOSE k \in S : \A o \in S \ {k} :
                          k[2] < o[2] \/ (k[2] = o[2] /\ StrLess(k[1], o[1]))
         IN  <<least>> \o SortKeys_RowsFirst(S \ {least})

RECURSIVE SortKeys(_)
SortKeys(S) ==
    IF S = {} THEN <<>>
    ELSE LET least == CHOOSE k \in S : \A o \in S \ {k} : KeyLess(k, o)
         IN  <<least>> \o SortKeys(S \ {least})

\* ------------------------------------------------------------------------
\* The CSV rows
\* ------------------------------------------------------------------------
Header == <<"case", "rows", "entropy_ns_per_op", "sqlite_ns_per_op", "ratio">>

\* a lookup that defaults to 0.0
Cell_ZeroDefault(row, engine) ==
    IF engine \in DOMAIN row THEN row[engine] ELSE [k |-> "fin", n |-> 0, d |-> 1]

\* row.get(engine, "")
Cell(row, engine) == IF engine \in DOMAIN row THEN row[engine] ELSE EmptyStr

\* the guard without its test of the divisor
RatioGuard_NoZeroTest(entropy_ns, sqlite_ns) ==
    IsFloat(entropy_ns) /\ IsFloat(sqlite_ns)

\* the guard of the division
RatioGuard(entropy_ns, sqlite_ns) ==
    IsFloat(entropy_ns) /\ IsFloat(sqlite_ns) /\ NonZero(sqlite_ns)

\* the list handed to writer.writerow for key; ok = FALSE when the
\* division raises ZeroDivisionError
DataRow(table, key) ==
    LET entropy_ns == Cell(table[key], "entropy")
        sqlite_ns == Cell(table[key], "sqlite")
        quot == IF RatioGuard(entropy_ns, sqlite_ns)
                THEN FloatDiv(entropy_ns, sqlite_ns)
                ELSE [ok |-> TRUE, val |-> EmptyStr]
    IN  [ok |-> quot.ok,
         row |-> [case |-> key[1], rows |-> key[2], entropy |-> entropy_ns,
                  sqlite |-> sqlite_ns, ratio |-> quot.val]]

\* ------------------------------------------------------------------------
\* Inputs
\* ------------------------------------------------------------------------
EIB10 == <<"B", "M", "_", "E", "n", "t", "r", "o", "p", "y", "I", "n", "s", "e", "r", "t", "B", "a", "t", "c", "h", "/", "1", "0">>
EIB2 == <<"B", "M", "_", "E", "n", "t", "r", "o", "p", "y", "I", "n", "s", "e", "r", "t", "B", "a", "t", "c", "h", "/", "2">>
SIB10 == <<"B", "M", "_", "S", "q", "l", "i", "t", "e", "I", "n", "s", "e", "r", "t", "B", "a", "t", "c", "h", "/", "1", "0">>
SPS5 == <<"B", "M", "_", "S", "q", "l", "i", "t", "e", "P", "o", "i", "n", "t", "S", "e", "l", "e", "c", "t", "/", "5">>
Other10 == <<"B", "M", "_", "O", "t", "h", "e", "r", "/", "1", "0">>
NegScan == <<"B", "M", "_", "S", "q", "l", "i", "t", "e", "S", "c", "a", "n", "/", "-", "5">>
BadArg == <<"B", "M", "_", "S", "c", "a", "n", "/", "E", "n", "t", "r", "o", "p", "y">>

\* the entries an input file is made of
Entries == {
    [name |-> EIB10, real_time |-> JNum(100), time_unit |-> "ns"],
    [name |-> SIB10, real_time |-> JNum(50), time_unit |-> "us"],
    [name |-> EIB10, real_time |-> JNum(2), time_unit |-> "s",
     run_type |-> "iteration"],
    [name |-> SIB10, real_time |-> JNum(0)],
    [name |-> EIB2, time_unit |-> "ms"],
    [name |-> SPS5, real_time |-> JNum(1), time_unit |-> "us",
     aggregate_name |-> "", run_type |-> "iteration"],
    [name |-> EIB10, real_time |-> JNum(7), time_unit |-> "ns",
     run_type |-> "aggregate", aggregate_name |-> "mean"],
    [name |-> BadArg, real_time |-> JNum(1), time_unit |-> "weeks",
     run_type |-> "aggregate"],
    [name |-> Other10, real_time |-> JNum(1), time_unit |-> "weeks"],
    [real_time |-> JNum(1), time_unit |-> "weeks"],
    [name |-> <<>>, real_time |-> JNum(1), time_unit |-> "weeks"],
    [name |-> SIB10, real_time |-> JNum(1), time_unit |-> "weeks"],
    [name |-> NegScan, real_time |-> JNum(1), time_unit |-> "ns"],
    [name |-> EIB10, real_time |-> JInfinity, time_unit |-> "ns"],
    [name |-> BadArg, real_time |-> JNum(1)] }

\* data.get("benchmarks", []): every list of at most MaxEntries entries
Inputs == UNION {[1..n -> Entries] : n \in 0..MaxEntries}

\* len(sys.argv)
ArgCounts == {2, 3}

\* names handed to parse_name on its own
EngineParts == {<<>>, <<"E", "n", "t", "r", "o", "p", "y">>, <<"S", "q", "l", "i", "t", "e">>, <<"E", "n", "t", "r", "o", "p", "y", "S", "q", "l", "i", "t", "e">>, <<"S", "q", "l", "i", "t", "e", "E", "n", "t", "r", "o", "p", "y">>}
CaseParts == {<<>>, <<"I", "n", "s", "e", "r", "t", "B", "a", "t", "c", "h">>, <<"P", "o", "i", "n", "t", "S", "e", "l", "e", "c", "t">>, <<"P", "o", "i", "n", "t", "S", "e", "l", "e", "c", "t", "I", "n", "s", "e", "r", "t", "B", "a", "t", "c", "h">>, <<"S", "c", "a", "n">>}
ArgParts == {<<>>, <<"/">>, <<"/", "1", "0">>, <<"/", "-", "5">>, <<"/", "+", "7">>, <<"/", "E", "n", "t", "r", "o", "p", "y">>, <<"/", "S", "q", "l", "i", "t", "e">>,
             <<"/", "1", "/", "2">>, <<"/", "I", "n", "s", "e", "r", "t", "B", "a", "t", "c", "h">>, <<"/", "x">>}
ParseNames == {<<"B", "M", "_">> \o e \o c \o a :
                   e \in EngineParts, c \in CaseParts, a \in ArgParts}
                \cup {c \o e \o a : e \in EngineParts, c \in CaseParts, a \in ArgParts}

NoResult == [ok |-> FALSE, case |-> <<>>, rows |-> 0, engine |-> "unset"]

\* ------------------------------------------------------------------------
\* main
\* ------------------------------------------------------------------------
Init ==
    /\ pc = "start"
    /\ argc \in ArgCounts
    /\ benchmarks = <<>>
    /\ i = 0
    /\ summary = EmptyDict
    /\ exc = "none"
    /\ output = [opened |-> FALSE, header |-> <<>>, rows |-> <<>>]
    /\ todo = <<>>
    /\ exit = -1
    /\ parsed = {}
    /\ converted = {}
    /\ pname = <<>>
    /\ presult = NoResult

\* if len(sys.argv) != 3: print usage, return 1
Usage ==
    /\ pc = "start"
    /\ argc # 3
    /\ pc' = "done"
    /\ exit' = 1
    /\ UNCHANGED <<argc, benchmarks, i, summary, exc, output, todo,
                   parsed, converted, pname, presult>>

\* data = json.load(handle); summary = {}
Load ==
    /\ pc = "start"
    /\ argc = 3
    /\ \E data \in Inputs : benchmarks' = data
    /\ pc' = "loop"
    /\ UNCHANGED <<argc, i, summary, exc, output, todo, exit,
                   parsed, converted, pname, presult>>

InLoop == pc = "loop" /\ i < Len(benchmarks)

entry == benchmarks[i + 1]

Continue ==
    /\ i' = i + 1
    /\ UNCHANGED <<pc, argc, benchmarks, summary, exc, output, todo, exit,
                   pname, presult>>

Raise(what) ==
    /\ i' = i + 1
    /\ pc' = "error"
    /\ exc' = what
    /\ UNCHANGED <<argc, benchmarks, summary, output, todo, exit,
                   pname, presult>>

\* the aggregate check: continue
SkipAggregate ==
    /\ InLoop
    /\ IsAggregate(entry)
    /\ Continue
    /\ UNCHANGED <<parsed, converted>>

\* if not name: continue
SkipNameless ==
    /\ InLoop
    /\ ~IsAggregate(entry)
    /\ NameOf(entry) = <<>>
    /\ Continue
    /\ UNCHANGED <<parsed, converted>>

\* parse_name raises: int(arg) fails
ParseError ==
    /\ InLoop
    /\ ~IsAggregate(entry)
    /\ NameOf(entry) # <<>>
    /\ ~parse_name(NameOf(entry)).ok
    /\ parsed' = parsed \cup {i + 1}
    /\ Raise("ValueError: invalid literal for int()")
    /\ UNCHANGED converted

\* the row is created before the engine is looked at
SkipOther_CreatesRow ==
    /\ pc = "loop" /\ i < Len(benchmarks)
    /\ ~IsAggregate(benchmarks[i + 1])
    /\ NameOf(benchmarks[i + 1]) # <<>>
    /\ parse_name(NameOf(benchmarks[i + 1])).ok
    /\ parse_name(NameOf(benchmarks[i + 1])).engine = "other"
    /\ LET p == parse_name(NameOf(benchmarks[i + 1]))
           key == <<p.case, p.rows>>
       IN  summary' = [k \in (DOMAIN summary) \cup {key} |->
                          IF k \in DOMAIN summary THEN summary[k]
                          ELSE [x \in {} |-> x]]
    /\ parsed' = parsed \cup {i + 1}
    /\ i' = i + 1
    /\ UNCHANGED <<pc, argc, benchmarks, exc, output, todo, exit,
                   converted, pname, presult>>

\* if engine == "other": continue
SkipOther ==
    /\ InLoop
    /\ ~IsAggregate(entry)
    /\ NameOf(entry) # <<>>
    /\ parse_name(NameOf(entry)).ok
    /\ parse_name(NameOf(entry)).engine = "other"
    /\ parsed' = parsed \cup {i + 1}
    /\ Continue
    /\ UNCHANGED converted

\* the conversion placed before the test of the engine
UnitError_BeforeEngineTest ==
    /\ pc = "loop" /\ i < Len(benchmarks)
    /\ ~IsAggregate(benchmarks[i + 1])
    /\ NameOf(benchmarks[i + 1]) # <<>>
    /\ parse_name(NameOf(benchmarks[i + 1])).ok
    /\ ~to_ns(RealTimeOf(benchmarks[i + 1]), UnitOf(benchmarks[i + 1])).ok
    /\ parsed' = parsed \cup {i + 1}
    /\ converted' = converted \cup {i + 1}
    /\ i' = i + 1
    /\ pc' = "error"
    /\ exc' = "ValueError: Unsupported time unit"
    /\ UNCHANGED <<argc, benchmarks, summary, output, todo, exit,
                   pname, presult>>

\* to_ns raises
UnitError ==
    /\ InLoop
    /\ ~IsAggregate(entry)
    /\ NameOf(entry) # <<>>
    /\ parse_name(NameOf(entry)).ok
    /\ parse_name(NameOf(entry)).engine # "other"
    /\ ~to_ns(RealTimeOf(entry), UnitOf(entry)).ok
    /\ parsed' = parsed \cup {i + 1}
    /\ converted' = converted \cup {i + 1}
    /\ Raise("ValueError: Unsupported time unit")

\* the entry is stored in the table
Fold ==
    /\ InLoop
    /\ ~IsAggregate(entry)
    /\ NameOf(entry) # <<>>
    /\ LET p == parse_name(NameOf(entry))
           ns == to_ns(RealTimeOf(entry), UnitOf(entry))
       IN  /\ p.ok
           /\ p.engine # "other"
           /\ ns.ok
           /\ summary' = Upsert(summary, <<p.case, p.rows>>, p.engine, ns.val)
    /\ parsed' = parsed \cup {i + 1}
    /\ converted' = converted \cup {i + 1}
    /\ i' = i + 1
    /\ UNCHANGED <<pc, argc, benchmarks, exc, output, todo, exit,
                   pname, presult>>

\* open(output_path, "w"), the header row, sorted(summary.keys())
OpenOutput ==
    /\ pc = "loop"
    /\ i = Len(benchmarks)
    /\ output' = [opened |-> TRUE, header |-> Header, rows |-> <<>>]
    /\ todo' = SortKeys(DOMAIN summary)
    /\ pc' = "emit"
    /\ UNCHANGED <<argc, benchmarks, i, summary, exc, exit,
                   parsed, converted, pname, presult>>

\* one pass of the emitting loop
EmitRow ==
    /\ pc = "emit"
    /\ todo # <<>>
    /\ LET r == DataRow(summary, Head(todo))
       IN  IF r.ok
           THEN /\ output' = [output EXCEPT !.rows = Append(@, r.row)]
                /\ todo' = Tail(todo)
                /\ UNCHANGED <<pc, exc>>
           ELSE /\ pc' = "error"
                /\ exc' = "ZeroDivisionError"
                /\ UNCHANGED <<output, todo>>
    /\ UNCHANGED <<argc, benchmarks, i, summary, exit,
                   parsed, converted, pname, presult>>

\* the file is closed; return 0
Finish ==
    /\ pc = "emit"
    /\ todo = <<>>
    /\ pc' = "done"
    /\ exit' = 0
    /\ UNCHANGED <<argc, benchmarks, i, summary, exc, output, todo,
                   parsed, converted, pname, presult>>

Next ==
    \/ Usage
    \/ Load
    \/ SkipAggregate
    \/ SkipNameless
    \/ ParseError
    \/ SkipOther
    \/ UnitError
    \/ Fold
    \/ OpenOutput
    \/ EmitRow
    \/ Finish

Spec == Init /\ [][Next]_vars

\* ------------------------------------------------------------------------
\* parse_name on its own: a name is chosen, then parsed
\* ------------------------------------------------------------------------
ChooseName ==
    /\ pc = "start"
    /\ \E n \in ParseNames : pname' = n
    /\ presult' = NoResult
    /\ pc' = "parse"
    /\ UNCHANGED <<argc, benchmarks, i, summary, exc, output, todo, exit,
                   parsed, converted>>

ApplyParse ==
    /\ pc = "parse"
    /\ presult' = parse_name(pname)
    /\ pc' = "parsed"
    /\ UNCHANGED <<argc, benchmarks, i, summary, exc, output, todo, exit,
                   parsed, converted, pname>>

NextParse == ChooseName \/ ApplyParse

ParseSpec == Init /\ [][NextParse]_vars

\* ------------------------------------------------------------------------
\* Vocabulary of the properties
\* ------------------------------------------------------------------------
Engines == {"entropy", "sqlite"}

SupportedUnits == {"ns", "us", "ms", "s"}

\* the entry has an aggregate marker: a non-empty aggregate_name, or the
\* run type "aggregate"
CarriesMarker(e) ==
    \/ ("aggregate_name" \in DOMAIN e /\ e["aggregate_name"] # "")
    \/ ("run_type" \in DOMAIN e /\ e["run_type"] = "aggregate")

Nameless(e) == "name" \notin DOMAIN e \/ e["name"] = <<>>

\* what parse_name makes of each name of the input entries
NamesOfEntries == {e["name"] : e \in {x \in Entries : "name" \in DOMAIN x}}

ParsedName == [n \in NamesOfEntries |-> parse_name(n)]

KeyOf(e) == <<ParsedName[e["name"]].case, ParsedName[e["name"]].rows>>

\* entry e is not skipped and parses to key and engine eng
Stores(e, key, eng) ==
    /\ ~CarriesMarker(e)
    /\ ~Nameless(e)
    /\ ParsedName[e["name"]].ok
    /\ KeyOf(e) = key
    /\ ParsedName[e["name"]].engine = eng

\* the entries before position n that store into key and eng
Writers(n, key, eng) ==
    {j \in 1..n : Stores(benchmarks[j], key, eng)}

Max(S) == CHOOSE m \in S : \A o \in S : o <= m

\* every key the input can produce, and every key of the table
CandidateKeys ==
    (DOMAIN summary) \cup
    {KeyOf(benchmarks[j]) :
        j \in {m \in 1..Len(benchmarks) : ~Nameless(benchmarks[m])}}

HasValue(key, eng) == key \in DOMAIN summary /\ eng \in DOMAIN summary[key]

RowSet == {output.rows[r] : r \in 1..Len(output.rows)}

Zero == [k |-> "fin", n |-> 0, d |-> 1]

\* ------------------------------------------------------------------------
\* C1
\* ------------------------------------------------------------------------
RatioIffBothAndNonZero(r) ==
    (r.ratio # EmptyStr) <=>
        (r.entropy # EmptyStr /\ r.sqlite # EmptyStr /\ r.sqlite # Zero)

\* ratio * sqlite = entropy, on the finite values; the IEEE quotient of
\* an infinite entropy value by a finite non-zero sqlite value is infinite
RatioIsQuotient(r) ==
    r.ratio # EmptyStr =>
        /\ (r.entropy.k = "fin" /\ r.sqlite.k = "fin") =>
              /\ r.ratio.k = "fin"
              /\ r.ratio.n * r.sqlite.n * r.entropy.d
                     = r.ratio.d * r.entropy.n * r.sqlite.d
        /\ (r.entropy.k = "inf" /\ r.sqlite.k = "fin") => r.ratio.k = "inf"

\* C1 as stated: the ratio field is non-empty exactly when both values are
\* present and the sqlite value is not zero, it is then entropy / sqlite,
\* and no run divides by zero or emits an infinite ratio.
C1_Stated ==
    /\ exc # "ZeroDivisionError"
    /\ \A r \in RowSet :
          /\ RatioIffBothAndNonZero(r)
          /\ RatioIsQuotient(r)
          /\ r.ratio.k # "inf"

\* C1 amended: the ratio field is non-empty exactly when both values are
\* present and the sqlite value is not zero, it is then the float quotient
\* entropy / sqlite, and no run divides by zero; the ratio is infinite only
\* when the float quotient is, here when the entropy value is infinite.
C1_RatioGuard ==
    /\ exc # "ZeroDivisionError"
    /\ \A r \in RowSet :
          /\ RatioIffBothAndNonZero(r)
          /\ RatioIsQuotient(r)
          /\ r.ratio.k = "inf" => r.entropy.k = "inf"

\* a row with both values, a zero sqlite value and an empty ratio was
\* written next to nothing else going wrong
C1_Witness ==
    /\ pc = "done"
    /\ \E r \in RowSet :
          r.entropy.k = "fin" /\ r.sqlite = Zero /\ r.ratio = EmptyStr

\* ------------------------------------------------------------------------
\* C2
\* ------------------------------------------------------------------------
\* C2: after any number of passes of the loop, the table holds for a key
\* and an engine the converted real_time of the last entry seen so far that
\* stores into that key and engine, and nothing when there is none; so an
\* earlier entry leaves no trace and an entry of the other engine changes
\* nothing.
C2_LastWriteWins ==
    pc \in {"loop", "emit", "done"} =>
        \A key \in CandidateKeys : \A eng \in Engines :
            IF Writers(i, key, eng) = {}
            THEN ~HasValue(key, eng)
            ELSE /\ HasValue(key, eng)
                 /\ LET last == benchmarks[Max(Writers(i, key, eng))]
                    IN  /\ UnitOf(last) \in SupportedUnits
                        /\ summary[key][eng]
                              = to_ns(RealTimeOf(last), UnitOf(last)).val

\* two entries of one key and engine with different timings, an entry of
\* the other engine between them, and the table holds the later timing
C2_Witness ==
    /\ pc = "done"
    /\ \E key \in DOMAIN summary :
          /\ Cardinality(Writers(i, key, "entropy")) >= 2
          /\ \E a, b \in Writers(i, key, "entropy") : \E c \in Writers(i, key, "sqlite") :
                /\ a < c /\ c < b
                /\ RealTimeOf(benchmarks[a]) # RealTimeOf(benchmarks[b])
                /\ summary[key]["entropy"]
                      = to_ns(RealTimeOf(benchmarks[b]), UnitOf(benchmarks[b])).val

\* ------------------------------------------------------------------------
\* C3
\* ------------------------------------------------------------------------
EmittedKeys == [r \in 1..Len(output.rows) |->
                   <<output.rows[r].case, output.rows[r].rows>>]

\* the rearrangements of n positions
Rearrangements == [n \in 0..MaxEntries |-> Permutations(1..n)]

\* the entries of the input rearranged by the permutation f of its positions
Rearranged(f) == [j \in 1..Len(benchmarks) |-> benchmarks[f[j]]]

\* C3: when a run has completed, the keys of the data rows are strictly
\* ascending by case (character order) and then by rows (numerically),
\* every key of the table is emitted exactly once, and a run over any
\* rearrangement of the same entries emits the same sequence of keys.
C3_SortedKeys ==
    pc = "done" /\ exit = 0 =>
        /\ \A a, b \in 1..Len(EmittedKeys) :
              a < b => KeyLess(EmittedKeys[a], EmittedKeys[b])
        /\ {EmittedKeys[r] : r \in 1..Len(EmittedKeys)} = DOMAIN summary
        /\ Len(EmittedKeys) = Cardinality(DOMAIN summary)
        /\ \A f \in Rearrangements[Len(benchmarks)] :
              LET other == aggregate(Rearranged(f))
              IN  other.ok /\ SortKeys(DOMAIN other.table) = EmittedKeys

\* a completed run over three keys met in descending order: rows 10 before
\* rows 2 of one case, and a case that sorts before both met last
C3_Witness ==
    /\ pc = "done"
    /\ Len(output.rows) = 3
    /\ Len(benchmarks) = 3
    /\ \E eng \in Engines : Stores(benchmarks[1], EmittedKeys[3], eng)
    /\ \E eng \in Engines : Stores(benchmarks[2], EmittedKeys[2], eng)
    /\ \E eng \in Engines : Stores(benchmarks[3], EmittedKeys[1], eng)
    /\ EmittedKeys[2][1] = EmittedKeys[3][1]
    /\ EmittedKeys[2][2] < EmittedKeys[3][2]
    /\ EmittedKeys[1][1] # EmittedKeys[2][1]

\* ------------------------------------------------------------------------
\* C4
\* ------------------------------------------------------------------------
\* C4: once to_ns has been called on an entry whose time_unit is not one of
\* ns, us, ms, s, the run is in the error state, and in the error state the
\* output file has not been opened and holds no header and no row.
C4_NoOutputOnUnitError ==
    /\ (\E j \in converted : UnitOf(benchmarks[j]) \notin SupportedUnits)
          => pc = "error"
    /\ pc = "error" =>
          /\ ~output.opened
          /\ output.header = <<>>
          /\ output.rows = <<>>
          /\ exit = -1

\* the run aborted on the unit of its third entry, after two entries had
\* been stored in the table
C4_Witness ==
    /\ pc = "error"
    /\ i = 3
    /\ UnitOf(benchmarks[3]) \notin SupportedUnits
    /\ 3 \in converted
    /\ Cardinality(DOMAIN summary) = 2
    /\ ~output.opened

\* ------------------------------------------------------------------------
\* C5
\* ------------------------------------------------------------------------
Unmarked(e) == ~CarriesMarker(e)

\* C5: when the aggregation loop has ended, by completion or by an error,
\* the table equals the table a run over the input without its
\* aggregate-marked entries ends with, and that run ends the same way; the
\* rows written are the rows of that table.
C5_AggregatesIgnored ==
    pc \in {"emit", "done", "error"} =>
        LET plain == aggregate(SelectSeq(benchmarks, Unmarked))
        IN  /\ summary = plain.table
            /\ plain.ok <=> pc # "error"
            /\ \A r \in RowSet : <<r.case, r.rows>> \in DOMAIN plain.table

\* a completed run whose input holds a marked entry with the name of an
\* engine's benchmark between two stored entries of the same key
C5_Witness ==
    /\ pc = "done"
    /\ Len(benchmarks) = 3
    /\ CarriesMarker(benchmarks[2])
    /\ ~Nameless(benchmarks[2])
    /\ ParsedName[benchmarks[2]["name"]].ok
    /\ ParsedName[benchmarks[2]["name"]].engine = "entropy"
    /\ Stores(benchmarks[1], KeyOf(benchmarks[2]), "entropy")
    /\ Len(output.rows) = 1

\* ------------------------------------------------------------------------
\* C6
\* ------------------------------------------------------------------------
\* C6: every row of the table holds a value for entropy or sqlite and for
\* no other engine name, and every key of the table, and of every data row
\* written, is the key of an entry seen that was stored for entropy or
\* sqlite; an entry classified other creates no row.
C6_OtherNeverStored ==
    /\ \A key \in DOMAIN summary :
          /\ DOMAIN summary[key] \subseteq Engines
          /\ DOMAIN summary[key] # {}
          /\ \E eng \in Engines : Writers(i, key, eng) # {}
    /\ \A r \in RowSet :
          \E eng \in Engines : Writers(i, <<r.case, r.rows>>, eng) # {}

\* a completed run that met an unmarked entry of engine other, whose key
\* is not in the table, and wrote a row for another entry
C6_Witness ==
    /\ pc = "done"
    /\ Len(output.rows) >= 1
    /\ \E j \in 1..Len(benchmarks) :
          /\ j \in parsed
          /\ ParsedName[benchmarks[j]["name"]].engine = "other"
          /\ KeyOf(benchmarks[j]) \notin DOMAIN summary

\* ------------------------------------------------------------------------
\* C7
\* ------------------------------------------------------------------------
\* the value the last writer of key and eng measured
Measured(key, eng) ==
    LET last == benchmarks[Max(Writers(Len(benchmarks), key, eng))]
    IN  to_ns(RealTimeOf(last), UnitOf(last)).val

FieldShowsMeasurement(field, key, eng) ==
    IF Writers(Len(benchmarks), key, eng) = {}
    THEN field = EmptyStr
    ELSE field # EmptyStr /\ field = Measured(key, eng)

\* C7: in every data row the entropy field is empty exactly when no entry
\* was stored for entropy at the row's key, and otherwise is the stored
\* measurement (a measured zero is written as zero), likewise the sqlite
\* field; after a completed run a key stored for both engines has exactly
\* one row, with both fields filled.
C7_EmptyMeansMissing ==
    /\ \A r \in RowSet :
          /\ FieldShowsMeasurement(r.entropy, <<r.case, r.rows>>, "entropy")
          /\ FieldShowsMeasurement(r.sqlite, <<r.case, r.rows>>, "sqlite")
    /\ pc = "done" /\ exit = 0 =>
          \A key \in CandidateKeys :
              (\A eng \in Engines : Writers(Len(benchmarks), key, eng) # {}) =>
                  /\ Cardinality({r \in 1..Len(output.rows) :
                        <<output.rows[r].case, output.rows[r].rows>> = key}) = 1
                  /\ \A r \in RowSet :
                        <<r.case, r.rows>> = key =>
                            r.entropy # EmptyStr /\ r.sqlite # EmptyStr

\* a completed run wrote a row with a measured zero for entropy and no
\* sqlite measurement, and a row that holds both engines
C7_Witness ==
    /\ pc = "done"
    /\ \E r \in RowSet : r.entropy = Zero /\ r.sqlite = EmptyStr
    /\ \E r \in RowSet : r.entropy # EmptyStr /\ r.sqlite # EmptyStr

\* ------------------------------------------------------------------------
\* C8
\* ------------------------------------------------------------------------
\* C8: every key of the table, and the rows field of every data row, has
\* rows >= 0.
C8_RowsNonNegative ==
    /\ \A key \in DOMAIN summary : key[2] >= 0
    /\ \A r \in RowSet : r.rows >= 0

\* ------------------------------------------------------------------------
\* C9
\* ------------------------------------------------------------------------
HasEntropy(e) == e \in {<<"E", "n", "t", "r", "o", "p", "y">>, <<"E", "n", "t", "r", "o", "p", "y", "S", "q", "l", "i", "t", "e">>, <<"S", "q", "l", "i", "t", "e", "E", "n", "t", "r", "o", "p", "y">>}

HasSqlite(e) == e \in {<<"S", "q", "l", "i", "t", "e">>, <<"E", "n", "t", "r", "o", "p", "y", "S", "q", "l", "i", "t", "e">>, <<"S", "q", "l", "i", "t", "e", "E", "n", "t", "r", "o", "p", "y">>}

ExpectedEngine(e) ==
    IF HasEntropy(e) THEN "entropy"
    ELSE IF HasSqlite(e) THEN "sqlite"
    ELSE "other"

\* the ways pname is put together from a prefix, an engine part, a case
\* part and the part from the first "/" on
Makeup ==
    {m \in [e : EngineParts, c : CaseParts, a : ArgParts] :
        pname \in {<<"B", "M", "_">> \o m.e \o m.c \o m.a, m.c \o m.e \o m.a}}

\* C9: whenever parse_name returns, the engine is entropy if the part of
\* the name before the first "/" holds Entropy, else sqlite if it holds
\* Sqlite, else other, whatever case marker stands before or after the
\* engine token; a name that holds a token only after the first "/" is
\* never classified entropy or sqlite.
C9_EngineFirstMatch ==
    pc = "parsed" =>
        \A m \in Makeup :
            /\ presult.ok => presult.engine = ExpectedEngine(m.e)
            /\ m.e = <<>> => presult.engine \notin Engines

\* parse_name returned entropy for a base that holds Sqlite before Entropy
\* and a case marker
C9_Witness ==
    /\ pc = "parsed"
    /\ presult.ok
    /\ presult.engine = "entropy"
    /\ presult.rows = 10
    /\ pname = <<"B", "M", "_", "S", "q", "l", "i", "t", "e", "E", "n", "t", "r", "o", "p", "y", "P", "o", "i", "n", "t", "S", "e", "l", "e", "c", "t", "/", "1", "0">>

\* ------------------------------------------------------------------------
\* C10
\* ------------------------------------------------------------------------
\* C10: parse_name is called only on entries that are unmarked and named,
\* to_ns only on entries that are also parsed and of engine entropy or
\* sqlite; a run is in the error state only through its latest entry, one
\* that was parsed, and when the error is the unit's, converted; a run over
\* entries that are all skipped or convertible does not end in error.
C10_SkippedNeverConverted ==
    /\ \A j \in parsed :
          ~CarriesMarker(benchmarks[j]) /\ ~Nameless(benchmarks[j])
    /\ \A j \in converted :
          /\ j \in parsed
          /\ ParsedName[benchmarks[j]["name"]].ok
          /\ ParsedName[benchmarks[j]["name"]].engine \in Engines
    /\ pc = "error" =>
          /\ i \in parsed
          /\ (exc = "ValueError: Unsupported time unit") <=> (i \in converted)
          /\ i \in converted => UnitOf(benchmarks[i]) \notin SupportedUnits
          /\ i \notin converted => ~ParsedName[benchmarks[i]["name"]].ok

\* a completed run that wrote a row although its input holds a marked
\* entry with an unparsable name and a bad unit, and an entry of engine
\* other with a bad unit
C10_Witness ==
    /\ pc = "done"
    /\ exit = 0
    /\ Len(output.rows) = 1
    /\ \E j \in 1..Len(benchmarks) :
          /\ CarriesMarker(benchmarks[j])
          /\ ~ParsedName[benchmarks[j]["name"]].ok
          /\ UnitOf(benchmarks[j]) \notin SupportedUnits
    /\ \E j \in 1..Len(benchmarks) :
          /\ j \in parsed
          /\ ParsedName[benchmarks[j]["name"]].engine = "other"
          /\ UnitOf(benchmarks[j]) \notin SupportedUnits

====
